---- MODULE Spec2Model ----
(***************************************************************************)
(* Cache semantics of owngoals/go-redis: the RedisStore (redisstore        *)
(* package) over a pooled connection to one Redis database, and the        *)
(* prefixing Service facade on top of it.                                  *)
(*                                                                         *)
(* Durations are counted in half seconds (Second == 2), so that a positive *)
(* duration below one second exists.  Go's int64/uint64 are       *)
(* modelled with IntBits bits; the arithmetic wraps exactly as Go's does.  *)
(***************************************************************************)
EXTENDS Integers, Sequences, FiniteSets, TLC

(***************************************************************************)
(* Bounds of the model.                                                    *)
(***************************************************************************)
IntBits == 3            \* width of the modelled int64 / uint64
MaxDuration == 2        \* longest explicit duration a caller passes

(***************************************************************************)
(* Program constants.                                                      *)
(***************************************************************************)
Second == 2             \* time.Second, in half seconds
DEFAULT == 0            \* time.Duration(0)
FOREVER == -1           \* time.Duration(-1)

ErrCacheMiss == "cache: key not found"
ErrNotStored == "cache: not stored"
ErrNotSupport == "cache: not support"

\* Go's nil error, and the errors of the collaborators.
NilErr == "<nil>"
ErrTransport == "redigo: connection failed"
ErrNilReply == "redigo: nil returned"
ErrType == "redigo: unexpected type"
ErrSyntax == "strconv: invalid syntax"
ErrGobNil == "gob: cannot encode nil value"
ErrNotInteger == "ERR value is not an integer or out of range"
ErrOverflow == "ERR increment or decrement would overflow"
ErrExpireTime == "ERR invalid expire time in setex"

(***************************************************************************)
(* Fixed-width integers.                                                   *)
(***************************************************************************)
RECURSIVE Pow2(_)
Pow2(n) == IF n = 0 THEN 1 ELSE 2 * Pow2(n - 1)
Modulus == Pow2(IntBits)
MaxInt64 == Pow2(IntBits - 1) - 1
MinInt64 == 0 - Pow2(IntBits - 1)
MaxUint64 == Modulus - 1
Int64s == MinInt64..MaxInt64
Uint64s == 0..MaxUint64

\* the conversions uint64(x) and int64(x), and wrapping addition
ToUint64(x) == x % Modulus
ToInt64(x) == IF x % Modulus > MaxInt64 THEN (x % Modulus) - Modulus
              ELSE x % Modulus

\* Go's integer division truncates toward zero
QuoTrunc(a, b) == IF a >= 0 THEN a \div b ELSE 0 - ((0 - a) \div b)

(***************************************************************************)
(* Decimal text: strconv.FormatInt / strconv.ParseInt, as sequences of     *)
(* one-character strings.                                                  *)
(***************************************************************************)
Digits == <<"0", "1", "2", "3", "4", "5", "6", "7", "8", "9">>
DigitChars == {Digits[i] : i \in 1..10}
DigitVal(c) == (CHOOSE i \in 1..10 : Digits[i] = c) - 1

RECURSIVE FormatNat(_)
FormatNat(n) == IF n < 10 THEN <<Digits[n + 1]>>
                ELSE FormatNat(n \div 10) \o <<Digits[(n % 10) + 1]>>
FormatInt(n) == IF n < 0 THEN <<"-">> \o FormatNat(0 - n) ELSE FormatNat(n)

RECURSIVE ParseNat(_, _)
ParseNat(s, acc) == IF s = <<>> THEN acc
                    ELSE ParseNat(Tail(s), 10 * acc + DigitVal(Head(s)))
IsNatText(s) == /\ Len(s) > 0
                /\ \A i \in 1..Len(s) : s[i] \in DigitChars
IsIntText(s) == IF Len(s) > 0 /\ s[1] = "-" THEN IsNatText(Tail(s))
                ELSE IsNatText(s)
TextVal(s) == IF s[1] = "-" THEN 0 - ParseNat(Tail(s), 0) ELSE ParseNat(s, 0)
\* strconv.ParseInt(s, 10, 64): [n, err]
ParseInt(s) == IF IsIntText(s) /\ TextVal(s) \in Int64s
               THEN [n |-> TextVal(s), err |-> NilErr]
               ELSE [n |-> 0, err |-> ErrSyntax]

(***************************************************************************)
(* Go values handed to the cache, and the serializer.                      *)
(***************************************************************************)
NilValue == [kind |-> "nil", s |-> "", n |-> 0]
StrValue(s) == [kind |-> "string", s |-> s, n |-> 0]
IntValue(n) == [kind |-> "int", s |-> "", n |-> n]

GobTag == "gob"
\* serializer.Serialize: [b, err]
Serialize(value) ==
    IF value.kind = "int" THEN [b |-> FormatInt(value.n), err |-> NilErr]
    ELSE IF value.kind = "nil" THEN [b |-> <<>>, err |-> ErrGobNil]
    ELSE [b |-> <<GobTag, value.s>>, err |-> NilErr]
\* serializer.Deserialize into a pointer of the type that was stored
Deserialize(b) ==
    IF Len(b) = 2 /\ b[1] = GobTag
    THEN [value |-> StrValue(b[2]), err |-> NilErr]
    ELSE IF ParseInt(b).err = NilErr
    THEN [value |-> IntValue(ParseInt(b).n), err |-> NilErr]
    ELSE [value |-> NilValue, err |-> ErrSyntax]

(***************************************************************************)
(* The Service facade's key rewriting, and the keys of the database.       *)
(***************************************************************************)
Prefixes == {"app", "web"}
Keys == {"u"}

\* cacheKey with the prefix forgotten
cacheKey_NoPrefix(prefix, key) == key

\* Service.cacheKey
cacheKey(prefix, key) == prefix \o ":" \o key

StoreKeys == {cacheKey(p, k) : p \in Prefixes, k \in Keys}

(***************************************************************************)
(* The remote database: for every key an entry that is absent, or holds    *)
(* bytes and a time to live in whole seconds (NoTTL: never expires).       *)
(***************************************************************************)
NoTTL == -1
Absent == [present |-> FALSE, b |-> <<>>, ttl |-> NoTTL]
Entry(b, ttl) == [present |-> TRUE, b |-> b, ttl |-> ttl]

(***************************************************************************)
(* Replies of conn.Do: [db, reply, err].  A reply is Go's nil, a bulk      *)
(* string, an integer, a status line or an error reply.                    *)
(***************************************************************************)
NilReply == [kind |-> "nil", b |-> <<>>, n |-> 0]
BulkReply(b) == [kind |-> "bulk", b |-> b, n |-> 0]
IntReply(n) == [kind |-> "int", b |-> <<>>, n |-> n]
OKReply == [kind |-> "status", b |-> <<>>, n |-> 0]
ErrorReply == [kind |-> "error", b |-> <<>>, n |-> 0]

Answer(d, reply) == [db |-> d, reply |-> reply, err |-> NilErr]
\* an error reply of the server: the command changed nothing
Refuse(d, e) == [db |-> d, reply |-> ErrorReply, err |-> e]

\* GET key
CmdGET(d, key) ==
    IF d[key].present THEN Answer(d, BulkReply(d[key].b))
    ELSE Answer(d, NilReply)

\* SET key bytes: overwrites the entry and discards its time to live
CmdSET(d, key, b) ==
    Answer([d EXCEPT ![key] = Entry(b, NoTTL)], OKReply)

\* SETEX key seconds bytes
CmdSETEX(d, key, seconds, b) ==
    IF seconds <= 0 THEN Refuse(d, ErrExpireTime)
    ELSE Answer([d EXCEPT ![key] = Entry(b, seconds)], OKReply)

\* EXISTS key
CmdEXISTS(d, key) ==
    Answer(d, IntReply(IF d[key].present THEN 1 ELSE 0))

\* EXPIRE key seconds: a time to live that is not positive deletes the key
CmdEXPIRE(d, key, seconds) ==
    IF ~d[key].present THEN Answer(d, IntReply(0))
    ELSE IF seconds <= 0 THEN Answer([d EXCEPT ![key] = Absent], IntReply(1))
    ELSE Answer([d EXCEPT ![key].ttl = seconds], IntReply(1))

\* DEL key
CmdDEL(d, key) ==
    IF d[key].present THEN Answer([d EXCEPT ![key] = Absent], IntReply(1))
    ELSE Answer(d, IntReply(0))

\* DECRBY key amount: the amount arrives as decimal text; an absent key
\* counts as 0 and is created; the time to live is kept
CmdDECRBY(d, key, amount) ==
    LET old == IF d[key].present THEN ParseInt(d[key].b)
               ELSE [n |-> 0, err |-> NilErr]
        new == old.n - amount
    IN  IF amount \notin Int64s \/ old.err # NilErr
        THEN Refuse(d, ErrNotInteger)
        ELSE IF amount = MinInt64 \/ new \notin Int64s
        THEN Refuse(d, ErrOverflow)
        ELSE Answer([d EXCEPT ![key] = Entry(FormatInt(new), d[key].ttl)],
                    IntReply(new))

\* FLUSHDB (its record notes in arg how many entries the database held)
CmdFLUSHDB(d) ==
    Answer([k \in DOMAIN d |-> Absent], OKReply)

(***************************************************************************)
(* The pooled connection of one call.  The transport either carries every  *)
(* command of the call (failAt = 0), or breaks at command number failAt:   *)
(* that command returns (nil, error), after the server applied it          *)
(* (applied) or before it arrived; every later command of the call fails   *)
(* without reaching the server.                                            *)
(***************************************************************************)
Healthy == [failAt |-> 0, applied |-> FALSE]
\* the connections of a call that issues up to n commands, the last of which
\* is the one that writes
Conns(n) == {Healthy} \cup {[failAt |-> i, applied |-> FALSE] : i \in 1..n}
                     \cup {[failAt |-> n, applied |-> TRUE]}

\* conn.Do for command number i of the call, r being the server's answer
Do(conn, i, d, r) ==
    IF conn.failAt = 0 \/ i < conn.failAt THEN r
    ELSE [db |-> IF i = conn.failAt /\ conn.applied THEN r.db ELSE d,
          reply |-> NilReply, err |-> ErrTransport]

\* the record kept of an issued command
Issued(name, key, arg, r) ==
    [cmd |-> name, key |-> key, arg |-> arg, reply |-> r.reply,
     res |-> IF r.err = NilErr THEN "ok"
             ELSE IF r.err = ErrTransport THEN "failed" ELSE "refused"]

(***************************************************************************)
(* redigo's reply helpers: [v, err].                                       *)
(***************************************************************************)
\* redis.Bool
Bool(reply, err) ==
    IF err # NilErr THEN [v |-> FALSE, err |-> err]
    ELSE IF reply.kind = "int" THEN [v |-> reply.n # 0, err |-> NilErr]
    ELSE IF reply.kind = "nil" THEN [v |-> FALSE, err |-> ErrNilReply]
    ELSE [v |-> FALSE, err |-> ErrType]

\* redis.Int64
Int64(reply, err) ==
    IF err # NilErr THEN [v |-> 0, err |-> err]
    ELSE IF reply.kind = "int" THEN [v |-> reply.n, err |-> NilErr]
    ELSE IF reply.kind = "bulk"
    THEN [v |-> ParseInt(reply.b).n, err |-> ParseInt(reply.b).err]
    ELSE IF reply.kind = "nil" THEN [v |-> 0, err |-> ErrNilReply]
    ELSE [v |-> 0, err |-> ErrType]

\* redis.Bytes
Bytes(reply, err) ==
    IF err # NilErr THEN [v |-> <<>>, err |-> err]
    ELSE IF reply.kind = "bulk" THEN [v |-> reply.b, err |-> NilErr]
    ELSE IF reply.kind = "nil" THEN [v |-> <<>>, err |-> ErrNilReply]
    ELSE [v |-> <<>>, err |-> ErrType]

(***************************************************************************)
(* RedisStore.  Every operation is given the Store's defaultExpiration     *)
(* where it needs it, the connection conn that pool.Get() handed out and   *)
(* the database d it runs against, and yields the database it leaves, the  *)
(* commands it issued and what it returns: err, and the result in out (the *)
(* value Get decodes), n (the uint64 of Increment/Decrement) or ok (the    *)
(* bool of Exists/SetExpire).                                              *)
(***************************************************************************)
Result(d, err, cmds) ==
    [db |-> d, err |-> err, cmds |-> cmds, out |-> NilValue, n |-> 0,
     ok |-> FALSE]

\* invoke that writes what the serializer handed back without looking at
\* its error
invoke_EncodeErrorIgnored(defaultExpiration, conn, i, d, key, value, expires) ==
    LET exp == IF expires = DEFAULT THEN defaultExpiration
               ELSE IF expires = FOREVER THEN 0
               ELSE expires
        ser == Serialize(value)
        secs == QuoTrunc(exp, Second)
        setex == Do(conn, i, d, CmdSETEX(d, key, secs, ser.b))
        set == Do(conn, i, d, CmdSET(d, key, ser.b))
    IN  IF exp > 0
        THEN Result(setex.db, setex.err,
                    <<Issued("SETEX", key, secs, setex)>>)
        ELSE Result(set.db, set.err, <<Issued("SET", key, 0, set)>>)

\* RedisStore.invoke, its command being number i of the call
invoke(defaultExpiration, conn, i, d, key, value, expires) ==
    LET exp == IF expires = DEFAULT THEN defaultExpiration
               ELSE IF expires = FOREVER THEN 0
               ELSE expires
        ser == Serialize(value)
        secs == QuoTrunc(exp, Second)
        setex == Do(conn, i, d, CmdSETEX(d, key, secs, ser.b))
        set == Do(conn, i, d, CmdSET(d, key, ser.b))
    IN  IF ser.err # NilErr THEN Result(d, ser.err, <<>>)
        ELSE IF exp > 0
        THEN Result(setex.db, setex.err,
                    <<Issued("SETEX", key, secs, setex)>>)
        ELSE Result(set.db, set.err, <<Issued("SET", key, 0, set)>>)

\* exists that issues EXISTS and reports "absent" whatever the reply
exists_AlwaysFalse(conn, i, d, key) ==
    LET r == Do(conn, i, d, CmdEXISTS(d, key))
    IN  [v |-> FALSE, cmds |-> <<Issued("EXISTS", key, 0, r)>>]

\* exists: the error of EXISTS is dropped
exists(conn, i, d, key) ==
    LET r == Do(conn, i, d, CmdEXISTS(d, key))
    IN  [v |-> Bool(r.reply, r.err).v, cmds |-> <<Issued("EXISTS", key, 0, r)>>]

\* RedisStore.Set
RedisStore_Set(defaultExpiration, conn, d, key, value, expires) ==
    invoke(defaultExpiration, conn, 1, d, key, value, expires)

\* RedisStore.Add
RedisStore_Add(defaultExpiration, conn, d, key, value, expires) ==
    LET e == exists(conn, 1, d, key)
        w == invoke(defaultExpiration, conn, 2, d, key, value, expires)
    IN  IF e.v THEN Result(d, ErrNotStored, e.cmds)
        ELSE Result(w.db, w.err, e.cmds \o w.cmds)

\* Replace without the existence check
RedisStore_Replace_Unchecked(defaultExpiration, conn, d, key, value, expires) ==
    LET e == exists(conn, 1, d, key)
        w == invoke(defaultExpiration, conn, 2, d, key, value, expires)
    IN  IF value = NilValue
        THEN Result(w.db, ErrNotStored, e.cmds \o w.cmds)
        ELSE Result(w.db, w.err, e.cmds \o w.cmds)

\* RedisStore.Replace
RedisStore_Replace(defaultExpiration, conn, d, key, value, expires) ==
    LET e == exists(conn, 1, d, key)
        w == invoke(defaultExpiration, conn, 2, d, key, value, expires)
    IN  IF ~e.v THEN Result(d, ErrNotStored, e.cmds)
        ELSE IF value = NilValue
        THEN Result(w.db, ErrNotStored, e.cmds \o w.cmds)
        ELSE Result(w.db, w.err, e.cmds \o w.cmds)

\* Get with the nil test inverted
RedisStore_Get_NilInverted(conn, d, key) ==
    LET r == Do(conn, 1, d, CmdGET(d, key))
        cmds == <<Issued("GET", key, 0, r)>>
        item == Bytes(r.reply, r.err)
        dec == Deserialize(item.v)
    IN  IF r.reply # NilReply THEN Result(r.db, ErrCacheMiss, cmds)
        ELSE IF item.err # NilErr THEN Result(r.db, item.err, cmds)
        ELSE [Result(r.db, dec.err, cmds) EXCEPT !.out = dec.value]

\* RedisStore.Get
RedisStore_Get(conn, d, key) ==
    LET r == Do(conn, 1, d, CmdGET(d, key))
        cmds == <<Issued("GET", key, 0, r)>>
        item == Bytes(r.reply, r.err)
        dec == Deserialize(item.v)
    IN  IF r.reply = NilReply THEN Result(r.db, ErrCacheMiss, cmds)
        ELSE IF item.err # NilErr THEN Result(r.db, item.err, cmds)
        ELSE [Result(r.db, dec.err, cmds) EXCEPT !.out = dec.value]

\* RedisStore.Exists
RedisStore_Exists(conn, d, key) ==
    LET r == Do(conn, 1, d, CmdEXISTS(d, key))
        b == Bool(r.reply, r.err)
    IN  [Result(r.db, NilErr, <<Issued("EXISTS", key, 0, r)>>)
            EXCEPT !.ok = IF b.err # NilErr THEN FALSE ELSE b.v]

\* SetExpire that answers true when EXPIRE returned an error
RedisStore_SetExpire_TrueOnError(conn, d, key, expires) ==
    LET secs == QuoTrunc(expires, Second)
        r == Do(conn, 1, d, CmdEXPIRE(d, key, secs))
        b == Bool(r.reply, r.err)
    IN  [Result(r.db, NilErr, <<Issued("EXPIRE", key, secs, r)>>)
            EXCEPT !.ok = IF b.err # NilErr THEN TRUE ELSE b.v]

\* RedisStore.SetExpire
RedisStore_SetExpire(conn, d, key, expires) ==
    LET secs == QuoTrunc(expires, Second)
        r == Do(conn, 1, d, CmdEXPIRE(d, key, secs))
        b == Bool(r.reply, r.err)
    IN  [Result(r.db, NilErr, <<Issued("EXPIRE", key, secs, r)>>)
            EXCEPT !.ok = IF b.err # NilErr THEN FALSE ELSE b.v]

\* Delete without the existence check
RedisStore_Delete_Unchecked(conn, d, key) ==
    LET r == Do(conn, 1, d, CmdDEL(d, key))
    IN  Result(r.db, r.err, <<Issued("DEL", key, 0, r)>>)

\* RedisStore.Delete
RedisStore_Delete(conn, d, key) ==
    LET e == exists(conn, 1, d, key)
        r == Do(conn, 2, d, CmdDEL(d, key))
    IN  IF ~e.v THEN Result(d, ErrCacheMiss, e.cmds)
        ELSE Result(r.db, r.err, e.cmds \o <<Issued("DEL", key, 0, r)>>)

\* Increment that counts a nil reply as 0, as a native INCRBY would
RedisStore_Increment_AutoCreate(conn, d, key, delta) ==
    LET g == Do(conn, 1, d, CmdGET(d, key))
        gcmds == <<Issued("GET", key, 0, g)>>
        cur == IF g.reply = NilReply THEN [v |-> 0, err |-> g.err]
               ELSE Int64(g.reply, NilErr)
        sum == ToInt64(cur.v + ToInt64(delta))
        w == Do(conn, 2, g.db, CmdSET(g.db, key, FormatInt(sum)))
        cmds == gcmds \o <<Issued("SET", key, sum, w)>>
    IN  IF g.err # NilErr THEN Result(g.db, g.err, gcmds)
        ELSE IF cur.err # NilErr THEN Result(g.db, cur.err, gcmds)
        ELSE IF w.err # NilErr THEN Result(w.db, w.err, cmds)
        ELSE [Result(w.db, NilErr, cmds) EXCEPT !.n = ToUint64(sum)]

\* RedisStore.Increment
RedisStore_Increment(conn, d, key, delta) ==
    LET g == Do(conn, 1, d, CmdGET(d, key))
        gcmds == <<Issued("GET", key, 0, g)>>
        cur == Int64(g.reply, NilErr)
        sum == ToInt64(cur.v + ToInt64(delta))
        w == Do(conn, 2, g.db, CmdSET(g.db, key, FormatInt(sum)))
        cmds == gcmds \o <<Issued("SET", key, sum, w)>>
    IN  IF g.reply = NilReply THEN Result(g.db, ErrCacheMiss, gcmds)
        ELSE IF g.err # NilErr THEN Result(g.db, g.err, gcmds)
        ELSE IF cur.err # NilErr THEN Result(g.db, cur.err, gcmds)
        ELSE IF w.err # NilErr THEN Result(w.db, w.err, cmds)
        ELSE [Result(w.db, NilErr, cmds) EXCEPT !.n = ToUint64(sum)]

\* RedisStore.Decrement
RedisStore_Decrement(conn, d, key, delta) ==
    LET e == exists(conn, 1, d, key)
        g == Do(conn, 2, d, CmdGET(d, key))
        cur == Int64(g.reply, g.err)
        amount == IF cur.err = NilErr /\ delta > ToUint64(cur.v)
                  THEN cur.v ELSE delta
        r == Do(conn, 3, g.db, CmdDECRBY(g.db, key, amount))
        tempint == Int64(r.reply, r.err)
        cmds == e.cmds \o <<Issued("GET", key, 0, g),
                            Issued("DECRBY", key, amount, r)>>
    IN  IF ~e.v THEN Result(d, ErrCacheMiss, e.cmds)
        ELSE [Result(r.db, tempint.err, cmds) EXCEPT !.n = ToUint64(tempint.v)]

\* Flush that drops the error of FLUSHDB
RedisStore_Flush_ErrorDropped(conn, d) ==
    LET r == Do(conn, 1, d, CmdFLUSHDB(d))
        held == Cardinality({k \in DOMAIN d : d[k].present})
    IN  Result(r.db, NilErr, <<Issued("FLUSHDB", "", held, r)>>)

\* RedisStore.Flush
RedisStore_Flush(conn, d) ==
    LET r == Do(conn, 1, d, CmdFLUSHDB(d))
        held == Cardinality({k \in DOMAIN d : d[k].present})
    IN  Result(r.db, r.err, <<Issued("FLUSHDB", "", held, r)>>)

(***************************************************************************)
(* Concurrent callers of one Store.  A caller runs one operation at a      *)
(* time, on the key "u" of the Service "app"; every round trip conn.Do of  *)
(* an operation is one step, so the commands of operations that run at the *)
(* same time interleave at the store.                                      *)
(***************************************************************************)
Callers == {"a", "b"}
ConcKey == cacheKey("app", "u")

\* What a caller's call holds: its arguments; pc, the round trip it is about
\* to make ("idle" before the first call, "done" once it returned); held,
\* whether it holds the connection of pool.Get(); broken, whether that
\* connection has failed; cur, the currentVal it read; what it returned
\* (err, with n or ok); and raced, whether its last round trip met an entry
\* other than the one its check or read had seen.
Frame(op, pc, value, expires, delta, held) ==
    [op |-> op, pc |-> pc, value |-> value, expires |-> expires,
     delta |-> delta, held |-> held, broken |-> FALSE,
     cur |-> [v |-> 0, err |-> NilErr], err |-> NilErr, n |-> 0, ok |-> FALSE,
     raced |-> FALSE]

NotCalled == Frame("none", "idle", NilValue, DEFAULT, 0, FALSE)

\* the first round trip of an operation
FirstStep(op) ==
    IF op \in {"Add", "Replace", "Delete", "Decrement"} THEN "exists"
    ELSE IF op = "Increment" THEN "get"
    ELSE "call"

\* conn := c.pool.Get() at the head of every operation
PoolGet(op, value, expires, delta) ==
    Frame(op, FirstStep(op), value, expires, delta, TRUE)

\* a return that leaves the connection checked out when it returns an error
Return_LeaksOnError(f, err, n) ==
    [f EXCEPT !.pc = "done", !.held = err # NilErr, !.broken = FALSE,
              !.cur = [v |-> 0, err |-> NilErr], !.err = err, !.n = n]

\* a return of the operation: the deferred conn.Close() hands the
\* connection back, and the locals of the call are gone
Return(f, err, n) ==
    [f EXCEPT !.pc = "done", !.held = FALSE, !.broken = FALSE,
              !.cur = [v |-> 0, err |-> NilErr], !.err = err, !.n = n]

\* the operation goes on to its next round trip, on a connection that stays
\* broken once a round trip failed on it
Proceed(f, pc, conn) == [f EXCEPT !.pc = pc, !.broken = conn # Healthy]

\* what the next round trip of a call may meet in the transport
StepConns(f) ==
    IF f.broken THEN {[failAt |-> 1, applied |-> FALSE]} ELSE Conns(1)

\* a step yields the database, the frame and the commands it issued
Yield(d, f, cmds) == [db |-> d, f |-> f, cmds |-> cmds]

\* Add that takes a key it found present for stored
Add_Step_PresentIsSuccess(defaultExpiration, conn, d, key, f) ==
    LET e == exists(conn, 1, d, key)
        w == invoke(defaultExpiration, conn, 1, d, key, f.value, f.expires)
    IN  IF f.pc = "exists"
        THEN IF e.v THEN Yield(d, Return(f, NilErr, 0), e.cmds)
             ELSE Yield(d, Proceed(f, "write", conn), e.cmds)
        ELSE Yield(w.db, Return(f, w.err, 0), w.cmds)

\* RedisStore.Add, step by step
Add_Step(defaultExpiration, conn, d, key, f) ==
    LET e == exists(conn, 1, d, key)
        w == invoke(defaultExpiration, conn, 1, d, key, f.value, f.expires)
    IN  IF f.pc = "exists"
        THEN IF e.v THEN Yield(d, Return(f, ErrNotStored, 0), e.cmds)
             ELSE Yield(d, Proceed(f, "write", conn), e.cmds)
        ELSE Yield(w.db, Return(f, w.err, 0), w.cmds)

\* RedisStore.Replace, step by step
Replace_Step(defaultExpiration, conn, d, key, f) ==
    LET e == exists(conn, 1, d, key)
        w == invoke(defaultExpiration, conn, 1, d, key, f.value, f.expires)
    IN  IF f.pc = "exists"
        THEN IF ~e.v THEN Yield(d, Return(f, ErrNotStored, 0), e.cmds)
             ELSE Yield(d, Proceed(f, "write", conn), e.cmds)
        ELSE IF f.value = NilValue
        THEN Yield(w.db, Return(f, ErrNotStored, 0), w.cmds)
        ELSE Yield(w.db, Return(f, w.err, 0), w.cmds)

\* RedisStore.Delete, step by step
Delete_Step(conn, d, key, f) ==
    LET e == exists(conn, 1, d, key)
        r == Do(conn, 1, d, CmdDEL(d, key))
    IN  IF f.pc = "exists"
        THEN IF ~e.v THEN Yield(d, Return(f, ErrCacheMiss, 0), e.cmds)
             ELSE Yield(d, Proceed(f, "write", conn), e.cmds)
        ELSE Yield(r.db, Return(f, r.err, 0), <<Issued("DEL", key, 0, r)>>)

\* Increment that adds to the integer the store holds at the write, as a
\* native INCRBY would
Increment_Step_Native(conn, d, key, f) ==
    LET g == Do(conn, 1, d, CmdGET(d, key))
        gcmds == <<Issued("GET", key, 0, g)>>
        cur == Int64(g.reply, NilErr)
        now == IF d[key].present THEN ParseInt(d[key].b).n ELSE 0
        sum == ToInt64(now + ToInt64(f.delta))
        w == Do(conn, 1, d, CmdSET(d, key, FormatInt(sum)))
        wcmds == <<Issued("SET", key, sum, w)>>
    IN  IF f.pc = "get"
        THEN IF g.reply = NilReply
             THEN Yield(g.db, Return(f, ErrCacheMiss, 0), gcmds)
             ELSE IF g.err # NilErr THEN Yield(g.db, Return(f, g.err, 0), gcmds)
             ELSE IF cur.err # NilErr
             THEN Yield(g.db, Return(f, cur.err, 0), gcmds)
             ELSE Yield(g.db, [Proceed(f, "write", conn) EXCEPT !.cur = cur],
                        gcmds)
        ELSE IF w.err # NilErr THEN Yield(w.db, Return(f, w.err, 0), wcmds)
        ELSE Yield(w.db, Return(f, NilErr, ToUint64(sum)), wcmds)

\* RedisStore.Increment, step by step
Increment_Step(conn, d, key, f) ==
    LET g == Do(conn, 1, d, CmdGET(d, key))
        gcmds == <<Issued("GET", key, 0, g)>>
        cur == Int64(g.reply, NilErr)
        sum == ToInt64(f.cur.v + ToInt64(f.delta))
        w == Do(conn, 1, d, CmdSET(d, key, FormatInt(sum)))
        wcmds == <<Issued("SET", key, sum, w)>>
    IN  IF f.pc = "get"
        THEN IF g.reply = NilReply
             THEN Yield(g.db, Return(f, ErrCacheMiss, 0), gcmds)
             ELSE IF g.err # NilErr THEN Yield(g.db, Return(f, g.err, 0), gcmds)
             ELSE IF cur.err # NilErr
             THEN Yield(g.db, Return(f, cur.err, 0), gcmds)
             ELSE Yield(g.db, [Proceed(f, "write", conn) EXCEPT !.cur = cur],
                        gcmds)
        ELSE IF w.err # NilErr THEN Yield(w.db, Return(f, w.err, 0), wcmds)
        ELSE Yield(w.db, Return(f, NilErr, ToUint64(sum)), wcmds)

\* RedisStore.Decrement, step by step
Decrement_Step(conn, d, key, f) ==
    LET e == exists(conn, 1, d, key)
        g == Do(conn, 1, d, CmdGET(d, key))
        cur == Int64(g.reply, g.err)
        amount == IF f.cur.err = NilErr /\ f.delta > ToUint64(f.cur.v)
                  THEN f.cur.v ELSE f.delta
        r == Do(conn, 1, d, CmdDECRBY(d, key, amount))
        tempint == Int64(r.reply, r.err)
    IN  IF f.pc = "exists"
        THEN IF ~e.v THEN Yield(d, Return(f, ErrCacheMiss, 0), e.cmds)
             ELSE Yield(d, Proceed(f, "get", conn), e.cmds)
        ELSE IF f.pc = "get"
        THEN Yield(g.db, [Proceed(f, "write", conn) EXCEPT !.cur = cur],
                   <<Issued("GET", key, 0, g)>>)
        ELSE Yield(r.db, Return(f, tempint.err, ToUint64(tempint.v)),
                   <<Issued("DECRBY", key, amount, r)>>)

\* the operations of a single round trip: r is what the operation yields
Single_Step(f, r) ==
    Yield(r.db, [Return(f, r.err, r.n) EXCEPT !.ok = r.ok], r.cmds)

\* the next round trip of the call in frame f
Store_Step(defaultExpiration, conn, d, key, f) ==
    CASE f.op = "Add" -> Add_Step(defaultExpiration, conn, d, key, f)
      [] f.op = "Replace" -> Replace_Step(defaultExpiration, conn, d, key, f)
      [] f.op = "Delete" -> Delete_Step(conn, d, key, f)
      [] f.op = "Increment" -> Increment_Step(conn, d, key, f)
      [] f.op = "Decrement" -> Decrement_Step(conn, d, key, f)
      [] f.op = "Set" ->
            Single_Step(f, RedisStore_Set(defaultExpiration, conn, d, key,
                                          f.value, f.expires))
      [] f.op = "Get" -> Single_Step(f, RedisStore_Get(conn, d, key))
      [] f.op = "Exists" -> Single_Step(f, RedisStore_Exists(conn, d, key))
      [] f.op = "SetExpire" ->
            Single_Step(f, RedisStore_SetExpire(conn, d, key, f.expires))
      [] f.op = "Flush" -> Single_Step(f, RedisStore_Flush(conn, d))

(***************************************************************************)
(* The state: the remote database, the default expiration of the Store     *)
(* that NewService builds, a record of the most recent call (or of the     *)
(* passing of time) for the calls that run one at a time, and the frames   *)
(* of the callers that run concurrently.                                   *)
(***************************************************************************)
VARIABLES db, defaultExpiration, last, call

vars == <<db, defaultExpiration, last, call>>

\* what callers pass
Values == {NilValue, StrValue("hello"), IntValue(-1)}
Durations == {FOREVER, DEFAULT, 1, MaxDuration}
Deltas == {1, MaxInt64 + 1, MaxUint64}

\* after: the call that this one follows at once, when that call succeeded
\* and was on the same key of the same Service (or was a Flush)
Event(op, prefix, key, value, expires, delta, after, r) ==
    [op |-> op, prefix |-> prefix, key |-> key, value |-> value,
     expires |-> expires, delta |-> delta, after |-> after,
     err |-> r.err, out |-> r.out, n |-> r.n, ok |-> r.ok, cmds |-> r.cmds]

NoEvent == Event("none", "", "", NilValue, DEFAULT, 0, "none",
                 Result(<<>>, NilErr, <<>>))

\* a NewService that gives the Store a default expiration of one second
NewService_OneSecond == Second

\* NewService: the Store gets the default expiration DEFAULT
NewService == DEFAULT

Init ==
    /\ db = [k \in StoreKeys |-> Absent]
    /\ defaultExpiration = NewService
    /\ last = NoEvent
    /\ call = [c \in Callers |-> NotCalled]

Follows(prefix, key) ==
    IF /\ last.op \in {"Set", "Add", "Get", "Delete", "Flush"}
       /\ last.err = NilErr
       /\ last.op = "Flush" \/ (last.prefix = prefix /\ last.key = key)
    THEN last.op ELSE "none"

\* a call of the Service on key: r is what the Store operation yields
Call(op, prefix, key, value, expires, delta, r) ==
    /\ db' = r.db
    /\ last' = Event(op, prefix, key, value, expires, delta,
                     Follows(prefix, key), r)
    /\ UNCHANGED <<defaultExpiration, call>>

\* Service.Get
Get(prefix, key) ==
    \E conn \in Conns(1) :
        Call("Get", prefix, key, NilValue, DEFAULT, 0,
             RedisStore_Get(conn, db, cacheKey(prefix, key)))

\* Service.Set
Set(prefix, key, value, expire) ==
    \E conn \in Conns(1) :
        Call("Set", prefix, key, value, expire, 0,
             RedisStore_Set(defaultExpiration, conn, db,
                            cacheKey(prefix, key), value, expire))

\* Service.Add
Add(prefix, key, value, expire) ==
    \E conn \in Conns(2) :
        Call("Add", prefix, key, value, expire, 0,
             RedisStore_Add(defaultExpiration, conn, db,
                            cacheKey(prefix, key), value, expire))

\* Service.Replace
Replace(prefix, key, data, expire) ==
    \E conn \in Conns(2) :
        Call("Replace", prefix, key, data, expire, 0,
             RedisStore_Replace(defaultExpiration, conn, db,
                                cacheKey(prefix, key), data, expire))

\* Service.Delete
Delete(prefix, key) ==
    \E conn \in Conns(2) :
        Call("Delete", prefix, key, NilValue, DEFAULT, 0,
             RedisStore_Delete(conn, db, cacheKey(prefix, key)))

\* Service.Increment
Increment(prefix, key, data) ==
    \E conn \in Conns(2) :
        Call("Increment", prefix, key, NilValue, DEFAULT, data,
             RedisStore_Increment(conn, db, cacheKey(prefix, key), data))

\* Service.Decrement
Decrement(prefix, key, data) ==
    \E conn \in Conns(3) :
        Call("Decrement", prefix, key, NilValue, DEFAULT, data,
             RedisStore_Decrement(conn, db, cacheKey(prefix, key), data))

\* Service.Flush
Flush(prefix) ==
    \E conn \in Conns(1) :
        Call("Flush", prefix, "", NilValue, DEFAULT, 0,
             RedisStore_Flush(conn, db))

\* Service.Exists
Exists(prefix, key) ==
    \E conn \in Conns(1) :
        Call("Exists", prefix, key, NilValue, DEFAULT, 0,
             RedisStore_Exists(conn, db, cacheKey(prefix, key)))

\* Service.SetExpire
SetExpire(prefix, key, expires) ==
    \E conn \in Conns(1) :
        Call("SetExpire", prefix, key, NilValue, expires, 0,
             RedisStore_SetExpire(conn, db, cacheKey(prefix, key), expires))

\* One second passes: the database counts every time to live down and
\* removes the entries whose time has run out.
Expired(e) ==
    IF ~e.present \/ e.ttl = NoTTL THEN e
    ELSE IF e.ttl = 1 THEN Absent
    ELSE [e EXCEPT !.ttl = e.ttl - 1]

Elapse ==
    /\ \E k \in StoreKeys : db[k].present /\ db[k].ttl # NoTTL
    /\ db' = [k \in StoreKeys |-> Expired(db[k])]
    /\ last' = [NoEvent EXCEPT !.op = "Elapse"]
    /\ UNCHANGED <<defaultExpiration, call>>

\* the calls that the Services with a prefix in P make, with values from V,
\* durations from E and deltas from N, and the passing of time
Step(P, V, E, N) ==
    \/ \E p \in P, k \in Keys : Get(p, k)
    \/ \E p \in P, k \in Keys, v \in V, e \in E : Set(p, k, v, e)
    \/ \E p \in P, k \in Keys, v \in V, e \in E : Add(p, k, v, e)
    \/ \E p \in P, k \in Keys, v \in V, e \in E : Replace(p, k, v, e)
    \/ \E p \in P, k \in Keys : Delete(p, k)
    \/ \E p \in P, k \in Keys, n \in N : Increment(p, k, n)
    \/ \E p \in P, k \in Keys, n \in N : Decrement(p, k, n)
    \/ \E p \in P : Flush(p)
    \/ \E p \in P, k \in Keys : Exists(p, k)
    \/ \E p \in P, k \in Keys, e \in E : SetExpire(p, k, e)
    \/ Elapse

\* one Service, every kind of argument
Next == Step({"app"}, Values, Durations, Deltas)

Spec == Init /\ [][Next]_vars

\* two Services with distinct prefixes on one pool
NextShared ==
    Step(Prefixes, {StrValue("hello"), IntValue(2)}, {FOREVER, MaxDuration},
         {MaxInt64 + 1})

SpecShared == Init /\ [][NextShared]_vars

(***************************************************************************)
(* The concurrent callers' steps.                                          *)
(***************************************************************************)
\* what the concurrent callers pass; they write without a time to live, and
\* their SetExpire passes the duration 0
ConcValues == {IntValue(1), IntValue(2)}
ConcDeltas == {1}

\* a caller that is not inside a call enters a Store operation
Begin(c, op, value, expires, delta) ==
    /\ call[c].pc \in {"idle", "done"}
    /\ call' = [call EXCEPT ![c] = PoolGet(op, value, expires, delta)]
    /\ UNCHANGED <<db, defaultExpiration, last>>

\* the write of the call in frame f is about to meet an entry that another
\* caller changed since the call's check or read
Raced(f, d, key) ==
    /\ f.pc = "write"
    /\ CASE f.op = "Add" -> d[key].present
         [] f.op \in {"Replace", "Delete"} -> ~d[key].present
         [] f.op \in {"Increment", "Decrement"} ->
               \/ ~d[key].present
               \/ ParseInt(d[key].b) # [n |-> f.cur.v, err |-> f.cur.err]
         [] OTHER -> FALSE

\* the next round trip of caller c's call
Advance(c) ==
    /\ call[c].pc \notin {"idle", "done"}
    /\ \E conn \in StepConns(call[c]) :
          LET r == Store_Step(defaultExpiration, conn, db, ConcKey, call[c])
          IN  /\ db' = r.db
              /\ call' = [call EXCEPT
                             ![c] = [r.f EXCEPT
                                        !.raced = Raced(call[c], db, ConcKey)]]
    /\ UNCHANGED <<defaultExpiration, last>>

NextConc ==
    \E c \in Callers :
        \/ \E v \in ConcValues \cup {NilValue} :
              Begin(c, "Set", v, FOREVER, 0)
        \/ \E v \in ConcValues : Begin(c, "Add", v, FOREVER, 0)
        \/ \E v \in ConcValues : Begin(c, "Replace", v, FOREVER, 0)
        \/ Begin(c, "Delete", NilValue, DEFAULT, 0)
        \/ \E n \in ConcDeltas :
              Begin(c, "Increment", NilValue, DEFAULT, n)
        \/ \E n \in ConcDeltas :
              Begin(c, "Decrement", NilValue, DEFAULT, n)
        \/ Begin(c, "Flush", NilValue, DEFAULT, 0)
        \/ Begin(c, "Get", NilValue, DEFAULT, 0)
        \/ Begin(c, "Exists", NilValue, DEFAULT, 0)
        \/ Begin(c, "SetExpire", NilValue, DEFAULT, 0)
        \/ Advance(c)

SpecConc == Init /\ [][NextConc]_vars

(***************************************************************************)
(* Reading the record of the most recent call.                             *)
(***************************************************************************)
\* the store key the call acted on
LastKey == cacheKey(last.prefix, last.key)
\* the call after this step is on the same Service and key as the one before
SameKey == last'.prefix = last.prefix /\ last'.key = last.key
\* every command of the call was answered by the server
Answered(e) == \A i \in 1..Len(e.cmds) : e.cmds[i].res # "failed"
\* the call issued a command with this name
Sent(e, name) == \E i \in 1..Len(e.cmds) : e.cmds[i].cmd = name
Wrote(e) == \E name \in {"SET", "SETEX", "DEL", "DECRBY", "EXPIRE", "FLUSHDB"} :
                Sent(e, name)
\* the call's first command was an EXISTS or GET that found, or missed, the key
Found(e) == /\ Len(e.cmds) > 0
            /\ e.cmds[1].res = "ok"
            /\ e.cmds[1].reply \notin {NilReply, IntReply(0)}
Missed(e) == /\ Len(e.cmds) > 0
             /\ e.cmds[1].res = "ok"
             /\ e.cmds[1].reply \in {NilReply, IntReply(0)}

TypeOK ==
    /\ \A k \in StoreKeys : db[k].present \in BOOLEAN
    /\ \A k \in StoreKeys : db[k].present =>
          /\ db[k].ttl = NoTTL \/ db[k].ttl \in 1..QuoTrunc(MaxDuration, Second)
          /\ db[k].b = <<GobTag, "hello">> \/ ParseInt(db[k].b).err = NilErr
    /\ defaultExpiration = DEFAULT
    /\ last.n \in Uint64s

(***************************************************************************)
(* C1: with the store answering, an Add on an absent key that succeeds     *)
(* stores its value, and an Add on the same key that follows immediately   *)
(* returns ErrNotStored, issues no write command (only the EXISTS) and     *)
(* leaves the stored value as the first Add wrote it.                      *)
(***************************************************************************)
C1_AddThenAdd ==
    [][/\ (last'.op = "Add" /\ Missed(last') /\ last'.err = NilErr) =>
             /\ db'[cacheKey(last'.prefix, last'.key)].present
             /\ db'[cacheKey(last'.prefix, last'.key)].b
                    = Serialize(last'.value).b
       /\ (/\ last.op = "Add" /\ last.err = NilErr
           /\ last'.op = "Add" /\ SameKey /\ Answered(last')) =>
             /\ last'.err = ErrNotStored
             /\ ~Wrote(last')
             /\ db' = db
             /\ db'[LastKey].present
             /\ db'[LastKey].b = Serialize(last.value).b]_vars

\* an Add that follows a successful Add found the key present, answered
\* ErrNotStored and sent only EXISTS
C1_Witness ==
    /\ last.op = "Add"
    /\ last.after = "Add"
    /\ Found(last)
    /\ last.err = ErrNotStored
    /\ Len(last.cmds) = 1
    /\ db[LastKey].present

(***************************************************************************)
(* C2: Get returns ErrCacheMiss if and only if the store has no entry for  *)
(* the key at the time of the GET; a GET that fails in the transport       *)
(* yields the transport's error, not ErrCacheMiss.                         *)
(***************************************************************************)
C2_GetMissIffAbsent ==
    last.op = "Get" => (last.err = ErrCacheMiss <=> ~db[LastKey].present)

Max(a, b) == IF a >= b THEN a ELSE b
\* the integer that the GET of a Decrement read
ReadInt(e) == ParseInt(e.cmds[2].reply.b)

C4_DecrementSaturates ==
    (/\ last.op = "Decrement" /\ Len(last.cmds) = 3
     /\ \A i \in 1..3 : last.cmds[i].res # "failed"
     /\ last.cmds[2].reply.kind = "bulk" /\ ReadInt(last).err = NilErr) =>
        /\ last.n = Max(ReadInt(last).n - last.delta, 0)
        /\ ParseInt(db[LastKey].b).n = Max(ReadInt(last).n - last.delta, 0)

(***************************************************************************)
(* C5: a Replace on an absent key returns ErrNotStored, issues no write    *)
(* command and leaves the database as it was; a Replace of a non-nil value *)
(* on a key that its EXISTS found issues the write and returns the write's *)
(* result, the entry holding the new value when the write succeeded.       *)
(***************************************************************************)
C5_Replace ==
    [][last'.op = "Replace" =>
        /\ ~db[cacheKey(last'.prefix, last'.key)].present =>
             /\ last'.err = ErrNotStored
             /\ ~Wrote(last')
             /\ db' = db
        /\ (/\ db[cacheKey(last'.prefix, last'.key)].present
            /\ last'.value # NilValue
            /\ last'.cmds[1].res = "ok") =>
             /\ Len(last'.cmds) = 2
             /\ last'.cmds[2].cmd \in {"SET", "SETEX"}
             /\ last'.err = NilErr <=> last'.cmds[2].res = "ok"
             /\ last'.cmds[2].res = "ok" =>
                  db'[cacheKey(last'.prefix, last'.key)].b
                      = Serialize(last'.value).b]_vars

\* a Replace was refused on an absent key without a write
C5_Witness ==
    /\ last.op = "Replace"
    /\ Missed(last)
    /\ last.err = ErrNotStored
    /\ Len(last.cmds) = 1
    /\ ~db[LastKey].present

(***************************************************************************)
(* C6: a Delete on an absent key returns ErrCacheMiss and issues no DEL; a *)
(* Delete on a key that its EXISTS found issues DEL, and once it succeeded *)
(* the key is absent: an Exists that follows returns false and a Get that  *)
(* follows returns ErrCacheMiss.                                           *)
(***************************************************************************)
C6_Delete ==
    [][/\ last'.op = "Delete" =>
           /\ ~db[cacheKey(last'.prefix, last'.key)].present =>
                /\ last'.err = ErrCacheMiss
                /\ ~Sent(last', "DEL")
                /\ db' = db
           /\ (/\ db[cacheKey(last'.prefix, last'.key)].present
               /\ last'.cmds[1].res = "ok") =>
                /\ Sent(last', "DEL")
                /\ last'.err = NilErr =>
                     ~db'[cacheKey(last'.prefix, last'.key)].present
       /\ (last.op = "Delete" /\ last.err = NilErr /\ SameKey) =>
           /\ last'.op = "Exists" => last'.ok = FALSE
           /\ last'.op = "Get" => last'.err = ErrCacheMiss]_vars

\* an Exists that follows a Delete which found the key and removed it with
\* DEL was answered by the server and returned false
C6_Witness ==
    /\ last.op = "Exists"
    /\ last.after = "Delete"
    /\ Answered(last)
    /\ last.ok = FALSE
    /\ ~db[LastKey].present

(***************************************************************************)
(* C7: an Increment on an absent key returns (0, ErrCacheMiss), issues no  *)
(* SET and leaves the key absent.                                          *)
(***************************************************************************)
C7_IncrementAbsent ==
    [][(last'.op = "Increment"
        /\ ~db[cacheKey(last'.prefix, last'.key)].present) =>
           /\ last'.n = 0
           /\ last'.err = ErrCacheMiss
           /\ ~Sent(last', "SET")
           /\ ~db'[cacheKey(last'.prefix, last'.key)].present]_vars

\* an Increment whose GET was answered with nil
C7_Witness ==
    /\ last.op = "Increment"
    /\ Missed(last)
    /\ last.err = ErrCacheMiss
    /\ last.n = 0
    /\ ~db[LastKey].present

(***************************************************************************)
(* C8: every command of a key-taking Service call carries exactly the key  *)
(* prefix + ":" + key, and such a call of one Service never changes the    *)
(* entry that a Service with another prefix has under the same raw key     *)
(* (the entry is all that the other Service's Get, Exists and the other    *)
(* operations read of the database).                                       *)
(***************************************************************************)
KeyOps == {"Get", "Set", "Add", "Replace", "Delete", "Increment",
           "Decrement", "Exists", "SetExpire"}

C8_PrefixIsolation ==
    [][last'.op \in KeyOps =>
        /\ cacheKey("app", "u") = "app:u"
        /\ \A i \in 1..Len(last'.cmds) :
              last'.cmds[i].key = last'.prefix \o ":" \o last'.key
        /\ \A q \in Prefixes \ {last'.prefix} :
              db'[q \o ":" \o last'.key] = db[q \o ":" \o last'.key]]_vars

\* both Services hold an entry under the raw key "u", with different values,
\* and the most recent call wrote one of them
C8_Witness ==
    /\ last.op \in {"Set", "Add", "Replace", "Increment", "Decrement"}
    /\ last.err = NilErr
    /\ db["app:u"].present /\ db["web:u"].present
    /\ db["app:u"].b # db["web:u"].b

(***************************************************************************)
(* C9: after a Flush that succeeded no key of the database is present,     *)
(* whichever Service wrote it: a Get that follows, through any Service,    *)
(* returns ErrCacheMiss and an Exists returns false.                       *)
(***************************************************************************)
C9_FlushClearsAll ==
    [][/\ (last'.op = "Flush" /\ last'.err = NilErr) =>
            \A k \in StoreKeys : ~db'[k].present
       /\ (last.op = "Flush" /\ last.err = NilErr) =>
            /\ last'.op = "Get" => last'.err = ErrCacheMiss
            /\ last'.op = "Exists" => last'.ok = FALSE]_vars

\* a Flush of one Service emptied a database that held the keys of both
C9_Witness ==
    /\ last.op = "Flush"
    /\ last.err = NilErr
    /\ last.cmds[1].arg = Cardinality(StoreKeys)
    /\ Cardinality(StoreKeys) > 1
    /\ \A k \in StoreKeys : ~db[k].present

(***************************************************************************)
(* C10: Exists and SetExpire return a bool and never an error; the bool is *)
(* false whenever their EXISTS or EXPIRE command failed; SetExpire on an   *)
(* absent key returns false and leaves the key absent.                     *)
(***************************************************************************)
C10_BoolNeverError ==
    [][last'.op \in {"Exists", "SetExpire"} =>
        /\ last'.err = NilErr
        /\ last'.ok \in BOOLEAN
        /\ last'.cmds[1].res # "ok" => last'.ok = FALSE
        /\ (last'.op = "SetExpire"
            /\ ~db[cacheKey(last'.prefix, last'.key)].present) =>
              /\ last'.ok = FALSE
              /\ ~db'[cacheKey(last'.prefix, last'.key)].present]_vars

\* the transport failed under a SetExpire on a present key: false, no error
C10_Witness ==
    /\ last.op = "SetExpire"
    /\ last.cmds[1].res = "failed"
    /\ last.ok = FALSE
    /\ last.err = NilErr
    /\ db[LastKey].present

(***************************************************************************)
(* Reading the concurrent callers' frames.                                 *)
(***************************************************************************)
\* the connections that are checked out of the pool
CheckedOut == {c \in Callers : call[c].held}
\* caller c is inside a call
Running(c) == call[c].pc \notin {"idle", "done"}
\* caller c's latest call was op and has returned err
Returned(c, op, err) ==
    call[c].op = op /\ call[c].pc = "done" /\ call[c].err = err

(***************************************************************************)
(* C11: a caller holds a connection exactly while it is inside a Store     *)
(* operation: the operation takes one when it starts and has given it back *)
(* when it has returned, whatever it returns; so when no caller is inside  *)
(* a call, whatever calls the concurrent callers have completed, no        *)
(* connection is checked out.                                              *)
(***************************************************************************)
C11_ConnectionReleased ==
    /\ \A c \in Callers : call[c].held <=> Running(c)
    /\ Cardinality(CheckedOut) = Cardinality({c \in Callers : Running(c)})
    /\ (\A c \in Callers : ~Running(c)) => CheckedOut = {}

\* both callers have returned from calls that ran at the same time, one with
\* success and one with the transport's error, and nothing is checked out
C11_Witness ==
    /\ Returned("a", "Add", NilErr)
    /\ call["a"].raced
    /\ Returned("b", "Add", ErrTransport)
    /\ CheckedOut = {}

(***************************************************************************)
(* C12: a Delete, Replace, Add or Decrement during which the transport     *)
(* failed (at the existence check or at any later command) returns the     *)
(* transport's error, never ErrCacheMiss, ErrNotStored or success (the     *)
(* value of an Add or Replace being one that serializes).                  *)
(***************************************************************************)
C12_TransportSurfaced ==
    (/\ last.op \in {"Delete", "Replace", "Add", "Decrement"}
     /\ last.op \in {"Replace", "Add"} => last.value # NilValue
     /\ ~Answered(last)) => last.err = ErrTransport

C14_SetExpiration ==
    (last.op = "Set" /\ Len(last.cmds) = 1) =>
        /\ last.expires = DEFAULT =>
              IF defaultExpiration > 0
              THEN /\ last.cmds[1].cmd = "SETEX"
                   /\ last.cmds[1].arg = QuoTrunc(defaultExpiration, Second)
              ELSE last.cmds[1].cmd = "SET"
        /\ last.expires = FOREVER => last.cmds[1].cmd = "SET"
        /\ last.expires > 0 =>
              /\ last.cmds[1].cmd = "SETEX"
              /\ last.cmds[1].arg = QuoTrunc(last.expires, Second)
              /\ last.cmds[1].arg > 0

\* caller c makes the round trip of its call's write, and the call returns
Writes(c, ops) ==
    /\ call[c].op \in ops
    /\ call[c].pc = "write"
    /\ call'[c].pc = "done"
\* the integer stored under the concurrent callers' key
Stored(d) == ParseInt(d[ConcKey].b).n

(***************************************************************************)
(* C15: an Add that returns success has stored its value, whatever another *)
(* caller wrote since its existence check (the last write wins); and when  *)
(* the latest calls of both callers are Adds that returned success, the    *)
(* key holds the value of one of them.                                     *)
(***************************************************************************)
C15_AddLastWriteWins ==
    [][/\ \A c \in Callers :
            (Writes(c, {"Add"}) /\ call'[c].err = NilErr) =>
                /\ db'[ConcKey].present
                /\ db'[ConcKey].b = Serialize(call[c].value).b
       /\ (\A c \in Callers : Returned(c, "Add", NilErr)') =>
            /\ db'[ConcKey].present
            /\ db'[ConcKey].b \in
                  {Serialize(call'[c].value).b : c \in Callers}]_vars

\* two Adds of different values both found the key absent and both returned
\* success; b wrote after a, over a's entry, and the key holds b's value
C15_Witness ==
    /\ Returned("a", "Add", NilErr)
    /\ Returned("b", "Add", NilErr)
    /\ ~call["a"].raced
    /\ call["b"].raced
    /\ call["a"].value # call["b"].value
    /\ db[ConcKey].b = Serialize(call["b"].value).b

(***************************************************************************)
(* C16: Increment reads the integer n under the key and then writes back   *)
(* n + delta (in int64 arithmetic) and returns it as uint64.  When nothing *)
(* was written between its read and its write, the stored integer grows by *)
(* exactly delta, so Increments that run one after the other add up; when  *)
(* another caller wrote in between, that write is overwritten by n + delta *)
(* (a lost update).                                                        *)
(***************************************************************************)
C16_IncrementReadThenWrite ==
    [][\A c \in Callers :
          /\ (/\ call[c].op = "Increment" /\ call[c].pc = "get"
              /\ call'[c].pc = "write") =>
                 /\ db[ConcKey].present
                 /\ call'[c].cur = [v |-> Stored(db), err |-> NilErr]
          /\ (Writes(c, {"Increment"}) /\ call'[c].err = NilErr) =>
                 /\ db'[ConcKey].present
                 /\ Stored(db') = ToInt64(call[c].cur.v + ToInt64(call[c].delta))
                 /\ call'[c].n = ToUint64(Stored(db'))
                 /\ ~call'[c].raced =>
                       Stored(db') = ToInt64(Stored(db) + ToInt64(call[c].delta))
                 /\ call'[c].raced <=>
                       \/ ~db[ConcKey].present
                       \/ ParseInt(db[ConcKey].b).err # NilErr
                       \/ Stored(db) # call[c].cur.v]_vars

\* two Increments read the same n and both returned success with n + 1; b
\* wrote after a, and the key holds n + 1, not n + 2
C16_Witness ==
    /\ Returned("a", "Increment", NilErr)
    /\ Returned("b", "Increment", NilErr)
    /\ ~call["a"].raced
    /\ call["b"].raced
    /\ call["a"].n = call["b"].n
    /\ Stored(db) = call["b"].n
    /\ Stored(db) = 2

(***************************************************************************)
(* C17: while the callers run Decrements on a key that holds a             *)
(* non-negative integer, the DECRBY of a Decrement leaves a non-negative   *)
(* integer and the Decrement returns a value that is not negative when     *)
(* read as a signed integer.                                               *)
(***************************************************************************)
C17_DecrementSafe ==
    [][\A c \in Callers :
          (/\ \A o \in Callers : call[o].op = "Decrement"
           /\ Writes(c, {"Decrement"})
           /\ db[ConcKey].present
           /\ ParseInt(db[ConcKey].b).err = NilErr
           /\ Stored(db) >= 0) =>
              /\ db'[ConcKey].present => Stored(db') >= 0
              /\ ToInt64(call'[c].n) >= 0]_vars

(***************************************************************************)
(* C18: when the key is absent at the moment the write command (SET,       *)
(* SETEX or DECRBY) of a Replace, Increment or Decrement reaches the       *)
(* store, the key is absent after the call has returned.                   *)
(***************************************************************************)
C18_NoResurrection ==
    [][\A c \in Callers :
          (/\ Writes(c, {"Replace", "Increment", "Decrement"})
           /\ ~db[ConcKey].present) => ~db'[ConcKey].present]_vars

(***************************************************************************)
(* C19: an Increment or Decrement that succeeds on a key whose entry       *)
(* carries a time to live leaves the entry with that time to live.         *)
(***************************************************************************)
C19_TtlKept ==
    [][(/\ last'.op \in {"Increment", "Decrement"}
        /\ last'.err = NilErr
        /\ db[cacheKey(last'.prefix, last'.key)].present
        /\ db[cacheKey(last'.prefix, last'.key)].ttl # NoTTL) =>
           /\ db'[cacheKey(last'.prefix, last'.key)].present
           /\ db'[cacheKey(last'.prefix, last'.key)].ttl
                  = db[cacheKey(last'.prefix, last'.key)].ttl]_vars

(***************************************************************************)
(* C20: the Store of a Service has the default expiration DEFAULT (0), so  *)
(* a Set, Add or Replace with ttl Default that reaches its write issues a  *)
(* plain SET and, when the write succeeded, leaves an entry that never     *)
(* expires, exactly as the same call with ttl Forever does; and with any   *)
(* default expiration that is not positive, invoke does for Default what   *)
(* it does for Forever.                                                    *)
(***************************************************************************)
NonPositive == {e \in Int64s : e <= 0}

C20_DefaultIsForever ==
    /\ defaultExpiration = DEFAULT
    /\ (/\ last.op \in {"Set", "Add", "Replace"}
        /\ last.expires = DEFAULT
        /\ Sent(last, "SET") \/ Sent(last, "SETEX")) =>
           /\ last.cmds[Len(last.cmds)].cmd = "SET"
           /\ last.cmds[Len(last.cmds)].res = "ok" =>
                 /\ db[LastKey].present
                 /\ db[LastKey].ttl = NoTTL
    /\ \A k \in StoreKeys, v \in Values, conn \in Conns(2) :
          /\ RedisStore_Set(defaultExpiration, conn, db, k, v, DEFAULT)
                = RedisStore_Set(defaultExpiration, conn, db, k, v, FOREVER)
          /\ RedisStore_Add(defaultExpiration, conn, db, k, v, DEFAULT)
                = RedisStore_Add(defaultExpiration, conn, db, k, v, FOREVER)
          /\ RedisStore_Replace(defaultExpiration, conn, db, k, v, DEFAULT)
                = RedisStore_Replace(defaultExpiration, conn, db, k, v, FOREVER)
          /\ \A e \in NonPositive :
                invoke(e, conn, 1, db, k, v, DEFAULT)
                   = invoke(e, conn, 1, db, k, v, FOREVER)

\* a Set with ttl Default wrote with a plain SET and left an entry that
\* does not expire
C20_Witness ==
    /\ last.op = "Set"
    /\ last.expires = DEFAULT
    /\ last.err = NilErr
    /\ last.cmds[1].cmd = "SET"
    /\ db[LastKey].present
    /\ db[LastKey].ttl = NoTTL

====
